---- MODULE Spec2Model ----
(***************************************************************************)
(* Flask-Security: the access guards of flask_security/decorators.py and   *)
(* the security views of flask_security/views.py, as a state machine over  *)
(* the session, the identity datastore and the last response produced.     *)
(***************************************************************************)
EXTENDS Integers, Sequences, FiniteSets, TLC

\* ------------------------------------------------------------------------
\* Bounds and value domains
\* ------------------------------------------------------------------------
MaxRoles == 2                       \* longest role list given to a decorator

None == "None"
NoTime == -1                        \* confirmed_at of an unconfirmed user
Anonymous == "anonymous"            \* flask-login's anonymous current_user
Users == {"u1", "u2"}
RoleNames == {"admin", "editor", "author"}
Tokens == {"t1", "t2"}              \* bearer token strings
Passwords == {"p1", "p2"}           \* plaintext passwords
Urls == {"/dashboard", "/posts"}    \* request.url
Referrers == {None, "/home"}        \* request.referrer

RoleLists == UNION {[1..n -> RoleNames] : n \in 1..MaxRoles}

\* configuration read through app.security
login_view == "/login"
token_authentication_header == "X-Auth-Token"
token_authentication_key == "auth_token"

VARIABLES
    current_user,       \* the session's current identity, or Anonymous
    roles,              \* datastore: user -> set of role names
    authentication_token, \* datastore: user -> bearer token or None
    password,           \* datastore: user -> stored password hash
    confirmed_at,       \* datastore: user -> time of confirmation or NoTime
    now,                \* the clock
    resp,               \* the response to the last request handled
    used,               \* history: the login token that last logged in, and
                        \* how many times in a row it did
    workers             \* concurrent confirm_email requests in progress

vars == <<current_user, roles, authentication_token, password, confirmed_at,
          now, resp, used, workers>>

\* ------------------------------------------------------------------------
\* External capabilities used by the guards
\* ------------------------------------------------------------------------
email(u) == IF u = "u1" THEN "u1@example.com" ELSE "u2@example.com"
Emails == {email(u) : u \in Users} \cup {"nobody@example.com"}

\* passlib context: stored hashes are tagged values, never the plaintext
encrypt(p) == <<"hash", p>>
MalformedHash == <<"hash?", None>>

\* pwd_context.verify(secret, hash): raises on a malformed hash
verify(secret, hash) ==
    IF hash = MalformedHash THEN [raised |-> TRUE, value |-> FALSE]
    ELSE [raised |-> FALSE, value |-> (hash = encrypt(secret))]

\* datastore.find_user(**kwargs): the matching user; raises when the
\* backend fails or when nobody matches
find_user(matching, db) ==
    IF db = "error" \/ matching = {} THEN [raised |-> TRUE, user |-> None]
    ELSE [raised |-> FALSE, user |-> CHOOSE u \in matching : TRUE]

\* an absent value (None) is held by nobody
find_user_by_token(token, db) ==
    find_user({u \in Users : token # None /\ authentication_token[u] = token},
              db)

find_user_by_email(e, db) ==
    find_user({u \in Users : email(u) = e}, db)

\* request.authorization of a request without an Authorization header
NoAuthorization == [username |-> None, password |-> None]

\* flask-principal: the identity provides one RoleNeed per role of the user
provides(u) == IF u = Anonymous THEN {} ELSE roles[u]

\* Permission.can(): no needs, or some need is provided by the identity
PermissionCan(needs, u) == needs = {} \/ (needs \cap provides(u)) # {}

is_authenticated(u) == u # Anonymous

\* flask-login's login_url(login_view, next_url)
login_url(view, next_url) == [path |-> view, next |-> next_url]

\* ------------------------------------------------------------------------
\* Responses
\* ------------------------------------------------------------------------
\* no login token has logged anybody in yet
NeverUsed ==
    [token |-> [user |-> None, purpose |-> "garbage", issued |-> 0],
     count |-> 0]

\* no concurrent request is in progress
Procs == {"r1", "r2"}
NoWorkers == [p \in Procs |-> [pc |-> "idle"]]

\* no JSON payload (meta code 0)
NoJson == [code |-> 0, errors |-> FALSE, user |-> None,
           authentication_token |-> None]

NoResponse ==
    [op |-> "none", req |-> None, status |-> 0, location |-> None,
     next |-> None, flashes |-> <<>>, handler |-> FALSE, log |-> <<>>,
     challenge |-> FALSE, template |-> FALSE, json |-> NoJson, pre |-> None]

\* fn(*args, **kwargs): the wrapped view runs and answers 200
call_fn(op, req, log) ==
    [NoResponse EXCEPT !.op = op, !.req = req, !.status = 200,
                       !.handler = TRUE, !.log = log]

redirect(op, req, location, next, flashes, log) ==
    [NoResponse EXCEPT !.op = op, !.req = req, !.status = 302,
                       !.location = location, !.next = next,
                       !.flashes = flashes, !.log = log]

\* an exception leaving the view function unhandled
unhandled(op, req, log) ==
    [NoResponse EXCEPT !.op = op, !.req = req, !.status = 500, !.log = log]

\* ------------------------------------------------------------------------
\* decorators.py
\* ------------------------------------------------------------------------
\* _check_token: the token looked up, and whether the lookup succeeded
check_token_value_header_first(request) ==
    IF request.header # None THEN request.header ELSE request.arg

check_token_value(request) ==
    LET header_token == request.header
    IN  IF request.arg # None THEN request.arg ELSE header_token

check_token_swallow(request) == TRUE

check_token(request) ==
    ~find_user_by_token(check_token_value(request), request.db).raised

check_http_auth(request) ==
    IF request.authorization = NoAuthorization
    THEN [raised |-> FALSE, value |-> FALSE]   \* dict has no .username
    ELSE LET found == find_user_by_email(request.authorization.username,
                                         request.db)
         IN  IF found.raised THEN [raised |-> FALSE, value |-> FALSE]
             ELSE verify(request.authorization.password,
                         password[found.user])

http_auth_required(request) ==
    LET ok == check_http_auth(request)
    IN  IF ok.raised THEN unhandled("http_auth_required", request, <<>>)
        ELSE IF ok.value THEN call_fn("http_auth_required", request, <<>>)
        ELSE [NoResponse EXCEPT !.op = "http_auth_required",
                                !.req = request, !.status = 401,
                                !.challenge = TRUE]

auth_token_required(request) ==
    LET log == << <<"find_user", check_token_value(request)>> >>
    IN  IF check_token(request)
        THEN call_fn("auth_token_required", request, log)
        ELSE [NoResponse EXCEPT !.op = "auth_token_required",
                                !.req = request, !.status = 401,
                                !.log = log]

\* perms = [Permission(RoleNeed(role)) for role in roles]
roles_required_perms(rs) == [i \in 1..Len(rs) |-> {rs[i]}]

\* for perm in perms: if not perm.can(): ... return
RECURSIVE any_perm_can(_, _)
any_perm_can(perms, u) ==
    IF perms = <<>> THEN FALSE
    ELSE IF PermissionCan(Head(perms), u) THEN TRUE
    ELSE any_perm_can(Tail(perms), u)

RECURSIVE all_perms_can(_, _)
all_perms_can(perms, u) ==
    IF perms = <<>> THEN TRUE
    ELSE IF ~PermissionCan(Head(perms), u) THEN FALSE
    ELSE all_perms_can(Tail(perms), u)

roles_required_unchecked_login(request) ==
    IF ~all_perms_can(roles_required_perms(request.roles), current_user)
    THEN redirect("roles_required", request,
                  IF request.referrer # None THEN request.referrer ELSE "/",
                  None, <<>>, <<>>)
    ELSE call_fn("roles_required", request, <<>>)

roles_required(request) ==
    IF ~is_authenticated(current_user)
    THEN LET target == login_url(login_view, request.url)
         IN  redirect("roles_required", request, target.path, target.next,
                      <<>>, <<>>)
    ELSE IF ~all_perms_can(roles_required_perms(request.roles), current_user)
    THEN redirect("roles_required", request,
                  IF request.referrer # None THEN request.referrer ELSE "/",
                  None, <<>>, <<>>)
    ELSE call_fn("roles_required", request, <<>>)

roles_accepted_perm_first(rs) == {rs[1]}

\* perm = Permission(*[RoleNeed(role) for role in roles])
roles_accepted_perm(rs) == {rs[i] : i \in 1..Len(rs)}

roles_accepted(request) ==
    IF ~is_authenticated(current_user)
    THEN LET target == login_url(login_view, request.url)
         IN  redirect("roles_accepted", request, target.path, target.next,
                      <<>>, <<>>)
    ELSE IF PermissionCan(roles_accepted_perm(request.roles), current_user)
    THEN call_fn("roles_accepted", request, <<>>)
    ELSE redirect("roles_accepted", request,
                  IF request.referrer # None THEN request.referrer ELSE "/",
                  None,
                  << "You do not have permission to view this resource" >>,
                  <<>>)

\* ------------------------------------------------------------------------
\* Requests to guarded routes
\* ------------------------------------------------------------------------
RoleRequests ==
    [roles : RoleLists, url : Urls, referrer : Referrers]

TokenRequests ==
    [header : Tokens \cup {None}, arg : Tokens \cup {None},
     db : {"ok", "error"}]

Authorizations ==
    {NoAuthorization} \cup [username : Emails, password : Passwords]

BasicRequests == [authorization : Authorizations, db : {"ok", "error"}]

RolesRequiredRequest ==
    \E request \in RoleRequests :
        /\ resp' = roles_required(request)
        /\ UNCHANGED <<current_user, roles, authentication_token, password,
                       confirmed_at, now, used, workers>>

RolesAcceptedRequest ==
    \E request \in RoleRequests :
        /\ resp' = roles_accepted(request)
        /\ UNCHANGED <<current_user, roles, authentication_token, password,
                       confirmed_at, now, used, workers>>

AuthTokenRequest ==
    \E request \in TokenRequests :
        /\ resp' = auth_token_required(request)
        /\ UNCHANGED <<current_user, roles, authentication_token, password,
                       confirmed_at, now, used, workers>>

HttpAuthRequest ==
    \E request \in BasicRequests :
        /\ resp' = http_auth_required(request)
        /\ UNCHANGED <<current_user, roles, authentication_token, password,
                       confirmed_at, now, used, workers>>

InitGuard ==
    /\ current_user \in Users \cup {Anonymous}
    /\ roles \in [Users -> SUBSET RoleNames]
    /\ authentication_token = [u \in Users |-> IF u = "u1" THEN "t1" ELSE None]
    /\ password = [u \in Users |->
                     IF u = "u1" THEN encrypt("p1") ELSE MalformedHash]
    /\ confirmed_at = [u \in Users |-> NoTime]
    /\ now = 0
    /\ resp = NoResponse
    /\ used = NeverUsed
    /\ workers = NoWorkers

NextGuard ==
    \/ RolesRequiredRequest
    \/ RolesAcceptedRequest
    \/ AuthTokenRequest
    \/ HttpAuthRequest

SpecGuard == InitGuard /\ [][NextGuard]_vars

\* ------------------------------------------------------------------------
\* Properties of the guards (checked under SpecGuard)
\* ------------------------------------------------------------------------
RoleSet(rs) == {rs[i] : i \in 1..Len(rs)}
RoleGated == resp.op \in {"roles_required", "roles_accepted"}
LookedUp == resp.log[1][2]
Holders(token) ==
    {u \in Users : token # None /\ authentication_token[u] = token}

\* C1: for an authenticated identity, the view behind roles_required(R) runs
\* iff every role of R is held by the identity; otherwise the view does not
\* run and the response is a redirect.
C1_RolesRequiredAllOf ==
    (resp.op = "roles_required" /\ current_user # Anonymous) =>
        /\ resp.handler <=> (RoleSet(resp.req.roles) \subseteq roles[current_user])
        /\ ~resp.handler => resp.status = 302

\* the spec's scenario: {"editor"} against roles_required("admin","editor")
C1_Witness ==
    /\ resp.op = "roles_required"
    /\ current_user # Anonymous
    /\ roles[current_user] = {"editor"}
    /\ resp.req.roles = <<"admin", "editor">>
    /\ ~resp.handler
    /\ resp.status = 302

\* C2: for an authenticated identity, the view behind roles_accepted(R) runs
\* iff R and the identity's roles intersect; otherwise the view does not run
\* and the response is a redirect.
C2_RolesAcceptedAnyOf ==
    (resp.op = "roles_accepted" /\ current_user # Anonymous) =>
        /\ resp.handler <=>
               (RoleSet(resp.req.roles) \cap roles[current_user] # {})
        /\ ~resp.handler => resp.status = 302

\* {"editor"} against roles_accepted("author","editor") is let through
C2_Witness ==
    /\ resp.op = "roles_accepted"
    /\ current_user # Anonymous
    /\ roles[current_user] = {"editor"}
    /\ resp.req.roles = <<"author", "editor">>
    /\ resp.handler

C4_HeaderPrecedence ==
    (/\ resp.op = "auth_token_required"
     /\ resp.req.header # None
     /\ resp.req.arg # None
     /\ resp.req.header # resp.req.arg) => LookedUp = resp.req.header

\* C4 amended: when header and query parameter carry different tokens, the
\* query-parameter value is the one looked up and decides the outcome.
C4_QueryPrecedence ==
    (/\ resp.op = "auth_token_required"
     /\ resp.req.header # None
     /\ resp.req.arg # None
     /\ resp.req.header # resp.req.arg) =>
        /\ LookedUp = resp.req.arg
        /\ resp.handler => Holders(resp.req.arg) # {}

\* a valid header token shadowed by an unknown query-parameter token
C4_Witness ==
    /\ resp.op = "auth_token_required"
    /\ resp.req.header = "t1"
    /\ resp.req.arg = "t2"
    /\ resp.req.db = "ok"
    /\ resp.status = 401

\* the credentials of a Basic request name a user and match its stored hash
GoodCredentials(request) ==
    /\ request.authorization # NoAuthorization
    /\ request.db = "ok"
    /\ \E u \in Users :
          /\ email(u) = request.authorization.username
          /\ password[u] = encrypt(request.authorization.password)

\* C5: every failure of HTTP Basic authentication is answered 401 with the
\* Basic challenge, the view does not run and no exception leaves the guard.
C5_UniformBasicFailure ==
    (resp.op = "http_auth_required" /\ ~GoodCredentials(resp.req)) =>
        /\ resp.status = 401
        /\ resp.challenge
        /\ ~resp.handler

\* C6: an anonymous request to a role-gated route is redirected to the login
\* view with the requested URL as next, and the view does not run.
C6_AnonymousToLogin ==
    (RoleGated /\ current_user = Anonymous) =>
        /\ resp.status = 302
        /\ resp.location = login_view
        /\ resp.next = resp.req.url
        /\ ~resp.handler

C6_Witness ==
    /\ resp.op = "roles_required"
    /\ current_user = Anonymous
    /\ resp.req.url = "/posts"
    /\ resp.status = 302
    /\ resp.next = "/posts"

\* C7: an authenticated identity denied by the role check is redirected to
\* the referrer (or "/") with a denial notice flashed, by both decorators.
C7_DenialRedirectsWithNotice ==
    (RoleGated /\ current_user # Anonymous /\ ~resp.handler) =>
        /\ resp.status = 302
        /\ resp.location =
              (IF resp.req.referrer # None THEN resp.req.referrer ELSE "/")
        /\ resp.flashes # <<>>

\* ------------------------------------------------------------------------
\* views.py: configuration and collaborators
\* ------------------------------------------------------------------------
MaxTime == 2                        \* last tick of the clock

\* token time-to-live per purpose (_security.*_within)
login_within == 1
confirm_email_within == 1
reset_password_within == 1

post_login_view == "/"
post_logout_view == "/"
post_confirm_view == None
post_reset_view == None
post_change_view == None
confirm_error_view == None

get_url(view) == view
get_post_login_redirect == get_url(post_login_view)
url_for(endpoint) ==
    CASE endpoint = "login" -> "/login"
      [] endpoint = "send_confirmation" -> "/confirm"
      [] endpoint = "forgot_password" -> "/reset"

\* a or b
Or(a, b) == IF a # None THEN a ELSE b

Ev(name, arg) == <<name, arg>>
Count(log, name) == Cardinality({i \in 1..Len(log) : log[i][1] = name})

\* purpose-scoped signed tokens: the payload a token string decodes to
Purposes == {"login", "confirm", "reset"}
Garbage == [user |-> None, purpose |-> "garbage", issued |-> 0]
\* the tokens presented to the view of a purpose: every token issued for
\* it so far, one of a deleted user, one of each other purpose, and garbage
SecurityTokens(purpose) ==
    [user : Users, purpose : {purpose}, issued : 0..now]
    \cup {[user |-> "u9", purpose |-> purpose, issued |-> now]}
    \cup {[user |-> "u1", purpose |-> p, issued |-> now] :
             p \in Purposes \ {purpose}}
    \cup {Garbage}

\* (expired, invalid, user) of a token for a purpose and its time-to-live
get_token_status(token, purpose, within) ==
    LET invalid == token.purpose # purpose \/ token.user \notin Users
        expired == ~invalid /\ (now - token.issued > within)
    IN  [expired |-> expired, invalid |-> invalid,
         user |-> IF invalid THEN None ELSE token.user]

login_token_status(token) == get_token_status(token, "login", login_within)
confirm_email_token_status(token) ==
    get_token_status(token, "confirm", confirm_email_within)
reset_password_token_status(token) ==
    get_token_status(token, "reset", reset_password_within)

\* confirm_user(user): sets confirmed_at unless it is already set
confirm_user(user) ==
    IF confirmed_at[user] # NoTime
    THEN [confirmed |-> FALSE, confirmed_at |-> confirmed_at]
    ELSE [confirmed |-> TRUE,
          confirmed_at |-> [confirmed_at EXCEPT ![user] = now]]

\* update_password / change_user_password store the hash of the password
update_password(user, new_password) ==
    [password EXCEPT ![user] = encrypt(new_password)]

\* use_form.validate_on_submit() of the login form, and the user it binds
login_form(request) ==
    LET found == find_user_by_email(request.form.email, "ok")
        valid == /\ request.form.submitted
                 /\ ~found.raised
                 /\ verify(request.form.password, password[found.user]).value
    IN  [valid |-> valid,
         errors |-> request.form.submitted /\ ~valid,
         user |-> IF valid THEN found.user ELSE None]

\* validate_on_submit() of the reset and change password forms
password_form(request) ==
    [valid |-> request.form.submitted /\ request.form.valid,
     errors |-> request.form.submitted /\ ~request.form.valid,
     user |-> None]

get_auth_token(user) == authentication_token[user]

Pre == [current_user |-> current_user, confirmed_at |-> confirmed_at,
        password |-> password, now |-> now]

\* the outcome of a view: its response and the state it leaves
Result(response, user, confirmed, passwords) ==
    [resp |-> [response EXCEPT !.pre = Pre], current_user |-> user,
     confirmed_at |-> confirmed, password |-> passwords]

Unchanged(response) ==
    Result(response, current_user, confirmed_at, password)

render_template(op, req, flashes, log) ==
    [NoResponse EXCEPT !.op = op, !.req = req, !.status = 200,
                       !.template = TRUE, !.flashes = flashes, !.log = log]

\* anonymous_user_required: an authenticated caller is sent away
anonymous_user_required(op, req) ==
    Unchanged(redirect(op, req, get_url(post_login_view), None, <<>>, <<>>))

\* flask-login's login_required: an anonymous caller is sent to the login view
login_required(op, req) ==
    Unchanged(redirect(op, req, login_view, None, <<>>, <<>>))

\* ------------------------------------------------------------------------
\* views.py: the view functions
\* ------------------------------------------------------------------------
render_json(op, req, form, include_auth_token, log) ==
    LET has_errors == form.errors
    IN  IF has_errors
        THEN [NoResponse EXCEPT !.op = op, !.req = req, !.status = 200,
                 !.log = log,
                 !.json = [NoJson EXCEPT !.code = 400, !.errors = TRUE]]
        ELSE IF form.user = None
        THEN unhandled(op, req, log)           \* form.user.id of no user
        ELSE [NoResponse EXCEPT !.op = op, !.req = req, !.status = 200,
                 !.log = log,
                 !.json = [NoJson EXCEPT !.code = 200, !.user = form.user,
                     !.authentication_token =
                         IF include_auth_token
                         THEN get_auth_token(form.user) ELSE None]]

\* _commit, called once per callback registered with after_this_request
commit(log) == Append(log, Ev("commit", None))

RECURSIVE after_request_eager(_, _)
after_request_eager(registered, log) ==
    IF registered = <<>> THEN <<>>
    ELSE (IF Head(registered)[1] = "after_this_request"
          THEN << Head(registered), Ev("commit", None) >>
          ELSE << Head(registered) >>)
         \o after_request_eager(Tail(registered), log)

RECURSIVE after_request(_, _)
after_request(registered, log) ==
    IF registered = <<>> THEN log
    ELSE after_request(Tail(registered),
            IF Head(registered)[1] = "after_this_request"
            THEN commit(log) ELSE log)

process_response(result) ==
    [result EXCEPT !.resp.log = after_request(result.resp.log,
                                              result.resp.log)]

login(request) ==
    IF is_authenticated(current_user)
    THEN anonymous_user_required("login", request)
    ELSE LET use_form == login_form(request)
             log == IF use_form.valid
                    THEN << Ev("login_user", use_form.user),
                            Ev("after_this_request", "_commit") >>
                    ELSE <<>>
             user == IF use_form.valid THEN use_form.user ELSE current_user
         IN  IF use_form.valid /\ ~request.json
             THEN Result(redirect("login", request, get_post_login_redirect,
                                  None, <<>>, log),
                         user, confirmed_at, password)
             ELSE IF request.json
             THEN Result(render_json("login", request, use_form, TRUE, log),
                         user, confirmed_at, password)
             ELSE Unchanged(render_template("login", request, <<>>, log))

logout_keep_session(request) ==
    Unchanged(redirect("logout", request,
                       Or(request.next, get_url(post_logout_view)),
                       None, <<>>, <<>>))

logout(request) ==
    LET log == IF is_authenticated(current_user)
               THEN << Ev("logout_user", current_user) >> ELSE <<>>
    IN  Result(redirect("logout", request,
                        Or(request.next, get_url(post_logout_view)),
                        None, <<>>, log),
               Anonymous, confirmed_at, password)

token_login_no_expiry(request) ==
    IF is_authenticated(current_user)
    THEN anonymous_user_required("token_login", request)
    ELSE LET status == login_token_status(request.token)
         IN  IF status.invalid
             THEN Unchanged(redirect("token_login", request, url_for("login"),
                                     None, << "INVALID_LOGIN_TOKEN" >>, <<>>))
             ELSE Result(redirect("token_login", request,
                             get_post_login_redirect, None,
                             << "PASSWORDLESS_LOGIN_SUCCESSFUL" >>,
                             << Ev("login_user", status.user),
                                Ev("after_this_request", "_commit") >>),
                         status.user, confirmed_at, password)

token_login_single_use(request) ==
    IF is_authenticated(current_user)
    THEN anonymous_user_required("token_login", request)
    ELSE LET status == login_token_status(request.token)
             spent == used.count > 0 /\ used.token = request.token
         IN  IF status.invalid \/ status.expired \/ spent
             THEN Unchanged(redirect("token_login", request, url_for("login"),
                                     None, << "INVALID_LOGIN_TOKEN" >>, <<>>))
             ELSE Result(redirect("token_login", request,
                             get_post_login_redirect, None,
                             << "PASSWORDLESS_LOGIN_SUCCESSFUL" >>,
                             << Ev("login_user", status.user),
                                Ev("after_this_request", "_commit") >>),
                         status.user, confirmed_at, password)

token_login(request) ==
    IF is_authenticated(current_user)
    THEN anonymous_user_required("token_login", request)
    ELSE LET status == login_token_status(request.token)
             flashes == (IF status.invalid THEN << "INVALID_LOGIN_TOKEN" >>
                         ELSE <<>>)
                        \o (IF status.expired THEN << "LOGIN_EXPIRED" >>
                            ELSE <<>>)
             sent == IF status.expired
                     THEN << Ev("send_login_instructions", status.user) >>
                     ELSE <<>>
         IN  IF status.invalid \/ status.expired
             THEN Unchanged(redirect("token_login", request, url_for("login"),
                                     None, flashes, sent))
             ELSE Result(redirect("token_login", request,
                             get_post_login_redirect, None,
                             << "PASSWORDLESS_LOGIN_SUCCESSFUL" >>,
                             << Ev("login_user", status.user),
                                Ev("after_this_request", "_commit") >>),
                         status.user, confirmed_at, password)

confirm_commit_always(confirmed) == << Ev("after_this_request", "_commit") >>

\* if confirm_user(user): after_this_request(_commit)
confirm_commit(confirmed) ==
    IF confirmed THEN << Ev("after_this_request", "_commit") >> ELSE <<>>

confirm_msg_fresh(confirmed) == "EMAIL_CONFIRMED"

\* msg = 'EMAIL_CONFIRMED' if confirm_user(user) else 'ALREADY_CONFIRMED'
confirm_msg(confirmed) ==
    IF confirmed THEN "EMAIL_CONFIRMED" ELSE "ALREADY_CONFIRMED"

confirm_email(request) ==
    LET status == confirm_email_token_status(request.token)
        invalid == status.user = None \/ status.invalid
        flashes == (IF invalid THEN << "INVALID_CONFIRMATION_TOKEN" >>
                    ELSE <<>>)
                   \o (IF status.expired THEN << "CONFIRMATION_EXPIRED" >>
                       ELSE <<>>)
        sent == IF status.expired
                THEN << Ev("send_confirmation_instructions", status.user) >>
                ELSE <<>>
    IN  IF invalid \/ status.expired
        THEN Unchanged(redirect("confirm_email", request,
                                Or(get_url(confirm_error_view),
                                   url_for("send_confirmation")),
                                None, flashes, sent))
        ELSE LET switch == IF status.user # current_user
                           THEN << Ev("logout_user", current_user),
                                   Ev("login_user", status.user) >>
                           ELSE <<>>
                 done == confirm_user(status.user)
                 msg == confirm_msg(done.confirmed)
             IN  Result(redirect("confirm_email", request,
                            Or(get_url(post_confirm_view),
                               get_url(post_login_view)),
                            None, << msg >>,
                            switch \o << Ev("confirm_user", status.user) >>
                                   \o confirm_commit(done.confirmed)),
                        status.user, done.confirmed_at, password)

\* if expired: flash_next('PASSWORD_RESET_EXPIRED', ...)
reset_password_expired(user) == <<>>

reset_password_on_submit(request) ==
    IF is_authenticated(current_user)
    THEN anonymous_user_required("reset_password", request)
    ELSE LET status == reset_password_token_status(request.token)
         IN  IF status.invalid \/ status.expired
             THEN Unchanged(redirect("reset_password", request,
                                     url_for("forgot_password"), None,
                                     <<>>, <<>>))
             ELSE IF request.form.submitted
             THEN Result(redirect("reset_password", request,
                             Or(get_url(post_reset_view),
                                get_url(post_login_view)),
                             None, << "PASSWORD_RESET" >>,
                             << Ev("after_this_request", "_commit"),
                                Ev("update_password", status.user),
                                Ev("login_user", status.user) >>),
                         status.user, confirmed_at,
                         update_password(status.user,
                                         request.form.password))
             ELSE Unchanged(render_template("reset_password", request,
                                            <<>>, <<>>))

reset_password(request) ==
    IF is_authenticated(current_user)
    THEN anonymous_user_required("reset_password", request)
    ELSE LET use_form == password_form(request)
             status == reset_password_token_status(request.token)
             flashes == (IF status.invalid
                         THEN << "INVALID_RESET_PASSWORD_TOKEN" >> ELSE <<>>)
                        \o (IF status.expired
                            THEN << "PASSWORD_RESET_EXPIRED" >> ELSE <<>>)
             sent == IF status.expired
                     THEN reset_password_expired(status.user) ELSE <<>>
         IN  IF status.invalid \/ status.expired
             THEN Unchanged(redirect("reset_password", request,
                                     url_for("forgot_password"), None,
                                     flashes, sent))
             ELSE IF use_form.valid
             THEN Result(redirect("reset_password", request,
                             Or(get_url(post_reset_view),
                                get_url(post_login_view)),
                             None, << "PASSWORD_RESET" >>,
                             << Ev("after_this_request", "_commit"),
                                Ev("update_password", status.user),
                                Ev("login_user", status.user) >>),
                         status.user, confirmed_at,
                         update_password(status.user,
                                         request.form.password))
             ELSE Unchanged(render_template("reset_password", request,
                                            <<>>, <<>>))

change_password(request) ==
    IF ~is_authenticated(current_user)
    THEN login_required("change_password", request)
    ELSE LET use_form == password_form(request)
             log == IF use_form.valid
                    THEN << Ev("after_this_request", "_commit"),
                            Ev("change_user_password", current_user) >>
                    ELSE <<>>
             passwords == IF use_form.valid
                          THEN update_password(current_user,
                                               request.form.password)
                          ELSE password
         IN  IF use_form.valid /\ ~request.json
             THEN Result(redirect("change_password", request,
                             Or(get_url(post_change_view),
                                get_url(post_login_view)),
                             None, << "PASSWORD_CHANGE" >>, log),
                         current_user, confirmed_at, passwords)
             ELSE IF request.json
             THEN Result(render_json("change_password", request,
                             [use_form EXCEPT !.user = current_user],
                             FALSE, log),
                         current_user, confirmed_at, passwords)
             ELSE Unchanged(render_template("change_password", request,
                                            <<>>, log))

\* ------------------------------------------------------------------------
\* Requests to the security blueprint
\* ------------------------------------------------------------------------
LoginForms ==
    {[submitted |-> FALSE, email |-> None, password |-> None]}
    \cup [submitted : {TRUE}, email : Emails, password : Passwords]

PasswordForms ==
    {[submitted |-> FALSE, valid |-> FALSE, password |-> None]}
    \cup [submitted : {TRUE}, valid : {FALSE}, password : {None}]
    \cup [submitted : {TRUE}, valid : {TRUE}, password : Passwords]

\* a request is handled: the view runs, then the after-request callbacks
Handle(result) ==
    LET done == process_response(result)
    IN  /\ resp' = done.resp
        /\ current_user' = done.current_user
        /\ confirmed_at' = done.confirmed_at
        /\ password' = done.password
        /\ UNCHANGED <<roles, authentication_token, now, used, workers>>

Login ==
    \E form \in LoginForms, json \in BOOLEAN :
        Handle(login([form |-> form, json |-> json]))

Logout ==
    \E next \in {None, "/posts"} : Handle(logout([next |-> next]))

TokenLogin ==
    \E token \in SecurityTokens("login") : Handle(token_login([token |-> token]))

ConfirmEmail ==
    \E token \in SecurityTokens("confirm") : Handle(confirm_email([token |-> token]))

ResetPassword ==
    \E token \in SecurityTokens("reset"), form \in PasswordForms :
        Handle(reset_password([token |-> token, form |-> form]))

ChangePassword ==
    \E form \in PasswordForms, json \in BOOLEAN :
        Handle(change_password([form |-> form, json |-> json]))

\* time passes
Tick ==
    /\ now < MaxTime
    /\ now' = now + 1
    /\ UNCHANGED <<current_user, roles, authentication_token, password,
                   confirmed_at, resp, used, workers>>

Init ==
    /\ current_user = Anonymous
    /\ roles = [u \in Users |-> {}]
    /\ authentication_token = [u \in Users |-> IF u = "u1" THEN "t1" ELSE None]
    /\ password = [u \in Users |-> encrypt("p1")]
    /\ confirmed_at = [u \in Users |-> NoTime]
    /\ now = 0
    /\ resp = NoResponse
    /\ used = NeverUsed
    /\ workers = NoWorkers

Next ==
    \/ Login
    \/ Logout
    \/ TokenLogin
    \/ ConfirmEmail
    \/ ResetPassword
    \/ ChangePassword
    \/ Tick

Spec == Init /\ [][Next]_vars

\* ------------------------------------------------------------------------
\* Properties of the views (checked under Spec)
\* ------------------------------------------------------------------------
TokenViews == {"token_login", "confirm_email", "reset_password"}
PurposeOf(op) ==
    CASE op = "token_login" -> "login"
      [] op = "confirm_email" -> "confirm"
      [] op = "reset_password" -> "reset"
WithinOf(op) ==
    CASE op = "token_login" -> login_within
      [] op = "confirm_email" -> confirm_email_within
      [] op = "reset_password" -> reset_password_within
RetryOf(op) ==
    CASE op = "token_login" -> "/login"
      [] op = "confirm_email" -> "/confirm"
      [] op = "reset_password" -> "/reset"

\* the request reached the view function (its access decorator let it in)
Reached ==
    resp.op \in {"token_login", "reset_password", "login"}
        => resp.pre.current_user = Anonymous

\* the token of the last request names an existing user for the view's
\* purpose, and its age at the time of the request
WellFormed ==
    /\ resp.req.token.purpose = PurposeOf(resp.op)
    /\ resp.req.token.user \in Users
Age == resp.pre.now - resp.req.token.issued

Commits == Count(resp.log, "commit")

\* C8: in each token flow an Expired token makes the request send fresh
\* instructions to the identity and redirect to the retry entry point.
C8_ExpiredReissues ==
    (resp.op \in TokenViews /\ Reached /\ WellFormed /\ Age > WithinOf(resp.op))
        => /\ \E i \in 1..Len(resp.log) :
                 resp.log[i] \in
                    {Ev("send_login_instructions", resp.req.token.user),
                     Ev("send_confirmation_instructions", resp.req.token.user),
                     Ev("send_reset_password_instructions",
                        resp.req.token.user)}
           /\ resp.status = 302
           /\ resp.location = RetryOf(resp.op)

\* the state-changing outcome of each view
StateChanging ==
    CASE resp.op \in {"login", "token_login"} ->
             current_user # resp.pre.current_user
      [] resp.op = "confirm_email" -> confirmed_at # resp.pre.confirmed_at
      [] resp.op = "reset_password" -> Count(resp.log, "update_password") = 1
      [] resp.op = "change_password" ->
             Count(resp.log, "change_user_password") = 1
      [] OTHER -> FALSE

\* C9: a request that logs in, confirms, resets or changes a password commits
\* exactly once; a request that does none of these does not commit.
C9_OneCommitPerChange ==
    resp.op \in {"login", "token_login", "confirm_email", "reset_password",
                 "change_password"}
        => Commits = (IF StateChanging THEN 1 ELSE 0)

\* a confirmation that sets confirmed_at, and its single commit
C9_Witness ==
    /\ resp.op = "confirm_email"
    /\ resp.flashes = << "EMAIL_CONFIRMED" >>
    /\ confirmed_at # resp.pre.confirmed_at
    /\ Commits = 1

\* a confirmation token of an identity that was confirmed before the request
ConfirmedBefore ==
    /\ resp.op = "confirm_email"
    /\ WellFormed
    /\ resp.pre.confirmed_at[resp.req.token.user] # NoTime

\* C10 as stated: every use of a confirmation token of an already confirmed
\* identity yields ALREADY_CONFIRMED and the success redirect.
C10_AlwaysAlreadyConfirmed ==
    ConfirmedBefore =>
        /\ resp.flashes = << "ALREADY_CONFIRMED" >>
        /\ resp.location = post_login_view

\* C10 amended: such a token yields ALREADY_CONFIRMED and the success
\* redirect while its age is within the time-to-live, and the Expired outcome
\* once it is older; it never confirms afresh and is never Invalid.
C10_AlreadyConfirmedWithinTTL ==
    ConfirmedBefore =>
        /\ confirmed_at = resp.pre.confirmed_at
        /\ resp.flashes =
              (IF Age > confirm_email_within
               THEN << "CONFIRMATION_EXPIRED" >>
               ELSE << "ALREADY_CONFIRMED" >>)
        /\ resp.location =
              (IF Age > confirm_email_within THEN "/confirm"
               ELSE post_login_view)

C10_Witness ==
    /\ ConfirmedBefore
    /\ Age <= confirm_email_within
    /\ resp.flashes = << "ALREADY_CONFIRMED" >>

\* the state the last request left is the state it found
StateUntouched ==
    /\ current_user = resp.pre.current_user
    /\ confirmed_at = resp.pre.confirmed_at
    /\ password = resp.pre.password

\* C11: re-using a confirmation token of an already confirmed identity
\* changes neither the session's identity nor the identity record, and
\* commits nothing, whoever the requester is.
C11_ReuseIsNoOp ==
    ConfirmedBefore => (StateUntouched /\ Commits = 0)

\* the login form of the last request failed validation
LoginFailed ==
    ~\E u \in Users :
        /\ resp.req.form.submitted
        /\ resp.req.form.email = email(u)
        /\ resp.pre.password[u] = encrypt(resp.req.form.password)

\* C12: a JSON login request is always answered with a JSON payload, never a
\* redirect: code 400 with the form errors, no session and no token when
\* validation fails; user id and token only with code 200 after a login.
C12_JsonLoginPayload ==
    (resp.op = "login" /\ resp.req.json) =>
        /\ resp.status = 200
        /\ resp.location = None
        /\ resp.json.code \in {200, 400}
        /\ LoginFailed =>
              /\ resp.json.code = 400
              /\ resp.json.errors
              /\ current_user = resp.pre.current_user
              /\ resp.json.authentication_token = None
        /\ resp.json.user # None =>
              /\ resp.json.code = 200
              /\ current_user = resp.json.user
              /\ Count(resp.log, "login_user") = 1

\* the token of the last request is Invalid or Expired for its view
InvalidOrExpired ==
    /\ resp.op \in TokenViews
    /\ (~WellFormed \/ Age > WithinOf(resp.op))

\* C13: an Invalid or Expired token changes no security state in token_login,
\* confirm_email and reset_password: no login, no confirmation, no password
\* update, no commit; the view redirects to its retry entry point.
C13_BadTokenChangesNothing ==
    InvalidOrExpired =>
        /\ StateUntouched
        /\ \A i \in 1..Len(resp.log) :
              resp.log[i][1] \notin {"login_user", "confirm_user",
                                     "update_password", "after_this_request",
                                     "commit"}
        /\ Reached => (resp.status = 302 /\ resp.location = RetryOf(resp.op))

\* an expired login token presented by an anonymous caller
C13_Witness ==
    /\ resp.op = "token_login"
    /\ Reached
    /\ WellFormed
    /\ Age > login_within
    /\ resp.location = "/login"
    /\ current_user = Anonymous

Mutations ==
    {"login_user", "logout_user", "confirm_user", "update_password",
     "change_user_password"}

\* C14: in every state-changing view the commit runs after all of the view's
\* mutations, once per registration, also where the commit callback was
\* registered before the mutation was made.
C14_CommitAfterMutations ==
    resp.op \in {"login", "token_login", "confirm_email", "reset_password",
                 "change_password"} =>
        /\ Commits = Count(resp.log, "after_this_request")
        /\ \A i, j \in 1..Len(resp.log) :
              (resp.log[i][1] = "commit" /\ resp.log[j][1] \in Mutations)
                  => j < i
        /\ Commits > 0 => resp.log[Len(resp.log)][1] = "commit"

\* a password reset: the callback is registered first, the commit runs last
C14_Witness ==
    /\ resp.op = "reset_password"
    /\ Len(resp.log) = 4
    /\ resp.log[1][1] = "after_this_request"
    /\ resp.log[2][1] = "update_password"
    /\ resp.log[3][1] = "login_user"
    /\ resp.log[4][1] = "commit"

\* a Valid reset token viewed without a validated form submission
ResetViewed ==
    /\ resp.op = "reset_password"
    /\ Reached
    /\ WellFormed
    /\ Age <= reset_password_within
    /\ ~(resp.req.form.submitted /\ resp.req.form.valid)

\* C15: viewing the reset page with a Valid token without a validated
\* submission has no side effect: password and session are untouched, nothing
\* is committed or sent, and the token is still usable.
C15_ResetViewHasNoEffect ==
    ResetViewed =>
        /\ StateUntouched
        /\ resp.log = <<>>
        /\ resp.template
        /\ now = resp.pre.now =>
              LET status == reset_password_token_status(resp.req.token)
              IN  ~status.invalid /\ ~status.expired

\* a POST that fails validation
C15_Witness ==
    /\ ResetViewed
    /\ resp.req.form.submitted
    /\ resp.template
    /\ current_user = Anonymous

\* ------------------------------------------------------------------------
\* Passwordless login with the history of the tokens used
\* ------------------------------------------------------------------------
MaxUses == 2                        \* uses in a row counted for one token

\* the token that last logged somebody in, and its uses in a row
record_use(token, response) ==
    IF Count(response.log, "login_user") = 0 THEN used
    ELSE [token |-> token,
          count |-> IF used.token = token
                    THEN (IF used.count < MaxUses THEN used.count + 1
                          ELSE MaxUses)
                    ELSE 1]

TokenLoginAgain ==
    \E token \in SecurityTokens("login") :
        LET done == process_response(token_login([token |-> token]))
        IN  /\ resp' = done.resp
            /\ current_user' = done.current_user
            /\ confirmed_at' = done.confirmed_at
            /\ password' = done.password
            /\ used' = record_use(token, done.resp)
            /\ UNCHANGED <<roles, authentication_token, now, workers>>

NextPasswordless ==
    \/ TokenLoginAgain
    \/ Logout
    \/ Tick

SpecPasswordless == Init /\ [][NextPasswordless]_vars

\* C16: a login token that has already logged its identity in logs the same
\* identity in again when presented by an anonymous caller within its
\* time-to-live, and is refused as expired only once it is older.
C16_LoginTokenReusable ==
    [][(/\ resp'.op = "token_login"
        /\ resp'.pre.current_user = Anonymous
        /\ used.count > 0
        /\ resp'.req.token = used.token)
         => IF resp'.pre.now - resp'.req.token.issued <= login_within
            THEN /\ \E i \in 1..Len(resp'.log) :
                       resp'.log[i] = Ev("login_user", used.token.user)
                 /\ current_user' = used.token.user
                 /\ resp'.flashes = << "PASSWORDLESS_LOGIN_SUCCESSFUL" >>
                 /\ resp'.location = post_login_view
            ELSE /\ Count(resp'.log, "login_user") = 0
                 /\ resp'.flashes = << "LOGIN_EXPIRED" >>
                 /\ resp'.location = "/login"]_vars

\* the same token logs its identity in a second time, after a logout
C16_Witness ==
    /\ resp.op = "token_login"
    /\ used.count = 2
    /\ used.token = resp.req.token
    /\ current_user = resp.req.token.user
    /\ resp.pre.current_user = Anonymous
    /\ resp.flashes = << "PASSWORDLESS_LOGIN_SUCCESSFUL" >>

\* ------------------------------------------------------------------------
\* The session across the views and the role-gated routes
\* ------------------------------------------------------------------------
InitSession ==
    /\ current_user = Anonymous
    /\ roles = [u \in Users |->
                  IF u = "u1" THEN {"admin", "editor"} ELSE {}]
    /\ authentication_token = [u \in Users |-> IF u = "u1" THEN "t1" ELSE None]
    /\ password = [u \in Users |-> encrypt("p1")]
    /\ confirmed_at = [u \in Users |-> NoTime]
    /\ now = 0
    /\ resp = NoResponse
    /\ used = NeverUsed
    /\ workers = NoWorkers

NextSession ==
    \/ Login
    \/ Logout
    \/ TokenLogin
    \/ ConfirmEmail
    \/ ResetPassword
    \/ RolesRequiredRequest
    \/ RolesAcceptedRequest

SpecSession == InitSession /\ [][NextSession]_vars

\* a logout leaves the session anonymous and redirects; for an anonymous
\* caller it changes nothing
LogoutLeavesAnonymous ==
    resp.op = "logout" =>
        /\ current_user = Anonymous
        /\ resp.status = 302
        /\ resp.pre.current_user = Anonymous =>
              (resp.log = <<>> /\ StateUntouched)

\* while the session is anonymous a role-gated route redirects to login
AnonymousIsSentToLogin ==
    (RoleGated /\ current_user = Anonymous) =>
        /\ resp.status = 302
        /\ resp.location = login_view
        /\ ~resp.handler

\* an anonymous session ends only by a view that calls login_user
SessionOnlyByLogin ==
    (current_user = Anonymous /\ current_user' # Anonymous) =>
        /\ resp'.op \in {"login", "token_login", "confirm_email",
                         "reset_password"}
        /\ \E i \in 1..Len(resp'.log) :
              resp'.log[i] = Ev("login_user", current_user')

StartingWorkers ==
    [pc : {"start"}, token : SecurityTokens("confirm"),
     session : {Anonymous, "u1"}, user : {None}, loaded : {NoTime},
     msg : {None}, commits : {0}]

\* confirm_user on the user object the request loaded
confirm_loaded(loaded) ==
    IF loaded # NoTime THEN [confirmed |-> FALSE, confirmed_at |-> loaded]
    ELSE [confirmed |-> TRUE, confirmed_at |-> now]

\* expired, invalid, user = confirm_email_token_status(token): the user is
\* loaded from the datastore; an invalid or expired token ends the request
ConfirmEmailStatus(p) ==
    LET w == workers[p]
        status == confirm_email_token_status(w.token)
        invalid == status.user = None \/ status.invalid
    IN  /\ w.pc = "start"
        /\ workers' = [workers EXCEPT ![p] =
              IF invalid
              THEN [w EXCEPT !.pc = "done",
                             !.msg = "INVALID_CONFIRMATION_TOKEN"]
              ELSE IF status.expired
              THEN [w EXCEPT !.pc = "done", !.user = status.user,
                             !.msg = "CONFIRMATION_EXPIRED"]
              ELSE [w EXCEPT !.pc = "loaded", !.user = status.user,
                             !.loaded = confirmed_at[status.user]]]
        /\ UNCHANGED <<current_user, roles, authentication_token, password,
                       confirmed_at, now, resp, used>>

\* the session switch, confirm_user(user) and the choice of the message
ConfirmEmailConfirm(p) ==
    LET w == workers[p]
        done == confirm_loaded(w.loaded)
    IN  /\ w.pc = "loaded"
        /\ workers' = [workers EXCEPT ![p] =
              [w EXCEPT !.pc = IF confirm_commit(done.confirmed) # <<>>
                               THEN "responding" ELSE "done",
                        !.session = w.user,
                        !.loaded = done.confirmed_at,
                        !.msg = confirm_msg(done.confirmed)]]
        /\ UNCHANGED <<current_user, roles, authentication_token, password,
                       confirmed_at, now, resp, used>>

\* the after_this_request callback: _commit writes the request's changes
ConfirmEmailCommit(p) ==
    LET w == workers[p]
    IN  /\ w.pc = "responding"
        /\ confirmed_at' = [confirmed_at EXCEPT ![w.user] = w.loaded]
        /\ workers' = [workers EXCEPT ![p] =
              [w EXCEPT !.pc = "done", !.commits = w.commits + 1]]
        /\ UNCHANGED <<current_user, roles, authentication_token, password,
                       now, resp, used>>

InitConcurrent ==
    /\ current_user = Anonymous
    /\ roles = [u \in Users |-> {}]
    /\ authentication_token = [u \in Users |-> IF u = "u1" THEN "t1" ELSE None]
    /\ password = [u \in Users |-> encrypt("p1")]
    /\ confirmed_at = [u \in Users |-> NoTime]
    /\ now = MaxTime
    /\ resp = NoResponse
    /\ used = NeverUsed
    /\ workers \in [Procs -> StartingWorkers]

NextConcurrent ==
    \E p \in Procs :
        \/ ConfirmEmailStatus(p)
        \/ ConfirmEmailConfirm(p)
        \/ ConfirmEmailCommit(p)

SpecConcurrent == InitConcurrent /\ [][NextConcurrent]_vars

\* both requests carried the same Valid token and have been answered
BothAnswered ==
    /\ workers["r1"].pc = "done"
    /\ workers["r2"].pc = "done"
    /\ workers["r1"].token = workers["r2"].token
    /\ workers["r1"].token.purpose = "confirm"
    /\ workers["r1"].token.user \in Users
    /\ now - workers["r1"].token.issued <= confirm_email_within

\* C18: two concurrent confirm_email requests with the same Valid token of an
\* unconfirmed identity leave it confirmed; exactly one of them reports
\* EMAIL_CONFIRMED and commits, the other reports ALREADY_CONFIRMED.
C18_ExactlyOneConfirms ==
    BothAnswered =>
        /\ confirmed_at[workers["r1"].token.user] # NoTime
        /\ \E p \in Procs : \E q \in Procs \ {p} :
              /\ workers[p].msg = "EMAIL_CONFIRMED"
              /\ workers[p].commits = 1
              /\ workers[q].msg = "ALREADY_CONFIRMED"
              /\ workers[q].commits = 0

====
